---- MODULE Spec2Model ----
(***************************************************************************)
(* Model of the dnd_builder character-creation wizard (characters.py and   *)
(* the forms, data tables and utilities it uses).  The Flask session is    *)
(* the state; every route handler is one action.                           *)
(*                                                                         *)
(* Representation:                                                         *)
(*   - a Python dict is a function whose DOMAIN is the set of keys present *)
(*   - a Python list is a sequence                                         *)
(*   - an optional dict (None or a dict) is a set with at most one record  *)
(*   - Python None / a missing form field is the string "None"             *)
(*   - a "category:name" form value is the pair <<category, name>>, the    *)
(*     empty form value is <<>>                                            *)
(*   - money computed as a float number of gp is kept in hundredths of a   *)
(*     gp, so that the sp/cp fractions are exact                           *)
(***************************************************************************)
EXTENDS Integers, Sequences, FiniteSets, TLC

VARIABLES session, response

vars == <<session, response>>

None == "None"

\* ------------------------------------------------------------------ bounds
NumSeeds == 2

\* ------------------------------------------------------- generic helpers
Has(s, k) == k \in DOMAIN s

Get(s, k, d) == IF k \in DOMAIN s THEN s[k] ELSE d

Set(s, k, v) == [x \in (DOMAIN s) \cup {k} |-> IF x = k THEN v ELSE s[x]]

Pop(s, k) == [x \in (DOMAIN s) \ {k} |-> s[x]]

RECURSIVE PopAll(_, _)
PopAll(s, ks) ==
    IF ks = <<>> THEN s ELSE PopAll(Pop(s, Head(ks)), Tail(ks))

Range(q) == {q[i] : i \in 1..Len(q)}

Min(a, b) == IF a <= b THEN a ELSE b

RECURSIVE SumSeq(_)
SumSeq(q) == IF q = <<>> THEN 0 ELSE Head(q) + SumSeq(Tail(q))

\* ---------------------------------------------------------- rule tables
ABILITY_LABELS ==
    <<"strength", "dexterity", "constitution",
      "intelligence", "wisdom", "charisma">>

Abilities == Range(ABILITY_LABELS)

EmptyBonus == [a \in {} |-> 0]

RACIAL_BONUSES ==
    [Elf      |-> [dexterity |-> 2, charisma |-> 1],
     Dwarf    |-> [constitution |-> 2, strength |-> 1],
     Halfling |-> [dexterity |-> 2, constitution |-> 1],
     Human    |-> EmptyBonus]

CLASS_HIT_DIE == [Cleric |-> 8, Fighter |-> 10, Rogue |-> 8, Wizard |-> 6]

Classes == {"Fighter", "Wizard", "Rogue", "Cleric"}

PROFICIENCY_BONUS == 2

primary_abilities ==
    [Wizard |-> "Intelligence", Cleric |-> "Wisdom", Rogue |-> "Dexterity"]

\* a modifier rounded toward zero instead of down
ability_modifier_truncated(score) ==
    IF score >= 10 THEN (score - 10) \div 2 ELSE 0 - ((10 - score) \div 2)

\* (score - 10) // 2 : Python floor division
ability_modifier(score) == (score - 10) \div 2

\* --------------------------------------------------------------- dice
\* random.randint(1, 6): each seed of the random source is one stream of
\* draws; draws of 1 and 2 are the ones roll_stat throws away.
DiceStreams ==
    << <<1, 3, 5, 2, 4, 4,   3, 3, 2, 3, 3,   3, 3, 3, 3,
         6, 5, 1, 1, 5, 3,   4, 4, 4, 3,      3, 4, 2, 3, 3>>,
       <<6, 6, 6, 6,         6, 2, 6, 5, 4,   5, 5, 4, 3,
         3, 3, 1, 3, 3,      5, 5, 5, 3,      4, 3, 4, 3>>,
       <<3, 4, 3, 3,         5, 5, 4, 3,      4, 4, 4, 3,
         2, 2, 5, 4, 4, 3,   3, 3, 3, 3,      6, 6, 6, 6>> >>

\* one die of roll_stat: draw until the value is 3 or higher
RECURSIVE RollDie(_, _)
RollDie(stream, pos) ==
    IF stream[pos] <= 2 THEN RollDie(stream, pos + 1)
    ELSE [roll |-> stream[pos], pos |-> pos + 1]

RECURSIVE RollDice(_, _, _)
RollDice(stream, pos, n) ==
    IF n = 0 THEN [rolls |-> <<>>, pos |-> pos]
    ELSE LET d == RollDie(stream, pos)
             r == RollDice(stream, d.pos, n - 1)
         IN  [rolls |-> <<d.roll>> \o r.rolls, pos |-> r.pos]

\* the sum of all four dice, none dropped
SumAllDice(rolls) == SumSeq(rolls)

\* sum(sorted(rolls)[1:]) : the sum of all dice less one lowest die
DropLowestSum(rolls) ==
    LET lowest == CHOOSE m \in Range(rolls) : \A x \in Range(rolls) : m <= x
    IN  SumSeq(rolls) - lowest

roll_stat(stream, pos) ==
    LET r == RollDice(stream, pos, 4)
    IN  [score |-> DropLowestSum(r.rolls), pos |-> r.pos]

RECURSIVE RollStats(_, _, _)
RollStats(stream, pos, labels) ==
    IF labels = <<>> THEN <<>>
    ELSE LET r == roll_stat(stream, pos)
         IN  <<r.score>> \o RollStats(stream, r.pos, Tail(labels))

RolledStats(seed) ==
    LET scores == RollStats(DiceStreams[seed], 1, ABILITY_LABELS)
    IN  [a \in Abilities |->
            scores[CHOOSE i \in 1..6 : ABILITY_LABELS[i] = a]]

\* ------------------------------------------------------------ responses
Redirect(op, target) ==
    [op |-> op, result |-> "redirect", target |-> target, flash |-> ""]

Render(op, template, msg) ==
    [op |-> op, result |-> "render", target |-> template, flash |-> msg]

ServerError(op) ==
    [op |-> op, result |-> "error", target |-> "500", flash |-> ""]

\* --------------------------------------------------- Step 1: abilities
step1_abilities(seed) ==
    /\ session' = [k \in {"stats", "coins_left"} |->
                     IF k = "stats" THEN RolledStats(seed)
                     ELSE [gp |-> 100]]
    /\ response' = Redirect("step1_abilities", "step1_abilities")

\* -------------------------------------------------------- Step 2: race
RaceInputs == {"Elf", "Dwarf", "Halfling", "Human", "Orc"}

\* no race changes any score
NoRaceBonus(race, k) == 0

RaceBonus(race, k) ==
    IF race \in DOMAIN RACIAL_BONUSES /\ k \in DOMAIN RACIAL_BONUSES[race]
    THEN RACIAL_BONUSES[race][k] ELSE 0

\* the bonuses added to the scores adjusted before, when there are any
step2_race_cumulative(race, saved) ==
    /\ Has(session, "stats")
    /\ saved
    /\ LET base == Get(session, "adjusted_stats", session["stats"])
           adjusted_stats ==
               [k \in DOMAIN base |-> base[k] + RaceBonus(race, k)]
           con_mod == ability_modifier(adjusted_stats["constitution"])
       IN  session' =
              Set(Set(Set(session, "race", race),
                      "adjusted_stats", adjusted_stats),
                  "constitution_modifier", con_mod)
    /\ response' = Redirect("step2_race", "step2_race_summary")

step2_race(race, saved) ==
    LET s1 == Set(session, "race", race)
    IN  IF ~Has(session, "stats")
        THEN \* session["stats"] raises KeyError after session["race"] was
             \* assigned; whether the session is written back with the 500
             \* response depends on how the application is run
             /\ session' = IF saved THEN s1 ELSE session
             /\ response' = ServerError("step2_race")
        ELSE LET base == session["stats"]
                 adjusted_stats ==
                     [k \in DOMAIN base |-> base[k] + RaceBonus(race, k)]
                 con_mod == ability_modifier(adjusted_stats["constitution"])
                 s2 == Set(s1, "adjusted_stats", adjusted_stats)
             IN  /\ saved
                 /\ session' = Set(s2, "constitution_modifier", con_mod)
                 /\ response' = Redirect("step2_race", "step2_race_summary")

\* ------------------------------------------------------- Step 3: class
ClassInputs == Classes \cup {"Bard"}

PrimaryInputs == {"strength", "dexterity", None}

step3_class(chosen_class, primary_ability) ==
    IF chosen_class \notin Classes
       \/ primary_ability \notin {"strength", "dexterity", None}
    THEN \* ClassForm: not one of the radio choices, validation fails
         /\ session' = session
         /\ response' = Render("step3_class", "class.html", "")
    ELSE
      LET s1 == Set(session, "class", chosen_class)
          s2 == IF chosen_class # "Rogue" THEN Set(s1, "expertise", <<>>)
                ELSE s1
          s3 == PopAll(s2, <<"equipment", "coins_left", "skill_proficiencies",
                             "fighting_style", "cantrips", "level1_spells">>)
          hit_die == CLASS_HIT_DIE[chosen_class]
          con_mod == Get(session, "constitution_modifier", 0)
          max_hp == hit_die + con_mod
          s4 == Set(Set(s3, "max_hp", max_hp), "current_hp", max_hp)
      IN  IF chosen_class = "Fighter"
          THEN IF primary_ability # None
               THEN /\ session' = Set(s4, "primary_ability", primary_ability)
                    /\ response' =
                         Redirect("step3_class", "fighter_selection")
               ELSE /\ session' = s4
                    /\ response' = Render("step3_class", "class.html",
                         "Fighters must select a primary ability")
          ELSE /\ session' = Pop(Set(s4, "primary_ability",
                                      primary_abilities[chosen_class]),
                                 "fighting_style")
               /\ response' = Redirect("step3_class", "step4_skills")

\* --------------------------------------------- Fighter sub-choice
CLASS_SKILLS ==
    [Fighter |-> <<"Acrobatics", "Animal Handling", "Athletics", "History",
                   "Insight", "Intimidation", "Perception", "Persuasion",
                   "Survival">>,
     Rogue   |-> <<"Acrobatics", "Athletics", "Deception", "Insight",
                   "Intimidation", "Investigation", "Perception",
                   "Performance", "Persuasion", "Sleight of Hand",
                   "Stealth">>,
     Cleric  |-> <<"History", "Insight", "Medicine", "Persuasion",
                   "Religion">>,
     Wizard  |-> <<"Arcana", "History", "Investigation", "Medicine",
                   "Religion">>]

FIGHTING_STYLES ==
    <<"Archery", "Blind Fighting", "Defense", "Dueling",
      "Great Weapon Fighting", "Interception", "Protection",
      "Thrown Weapon Fighting", "Two-Weapon Fighting", "Unarmed Fighting">>

\* (fighting_style, skills) submissions of the Fighter form
FighterInputs ==
    { <<"Dueling", <<"Athletics", "Perception">> >>,
      <<None,      <<"Athletics", "Perception">> >>,
      <<"Dueling", <<"Athletics">> >>,
      <<None,      <<"Athletics", "Perception", "Survival">> >>,
      <<"Dueling", <<"Arcana", "Stealth">> >>,
      <<"Brawling", <<"Athletics", "Perception">> >> }

Methods == {"GET", "POST"}

fighter_selection(method, fighting_style, skills) ==
    IF Get(session, "class", None) # "Fighter"
    THEN /\ session' = session
         /\ response' = Redirect("fighter_selection", "step3_class")
    ELSE IF Get(session, "primary_ability", None) = None
    THEN /\ session' = session
         /\ response' = [Redirect("fighter_selection", "step3_class")
                           EXCEPT !.flash = "select class and primary first"]
    ELSE IF method = "POST"
    THEN IF Len(skills) # 2
         THEN /\ session' = session
              /\ response' = Render("fighter_selection", "class_fighter.html",
                                    "Fighters must select exactly 2 skills.")
         ELSE IF fighting_style # None
         THEN /\ session' = Set(Set(session, "fighting_style", fighting_style),
                                "skills", skills)
              /\ response' = Redirect("fighter_selection", "step5_equipment")
         ELSE /\ session' = session
              /\ response' = Render("fighter_selection", "class_fighter.html",
                                    "Please select a fighting style.")
    ELSE /\ session' = session
         /\ response' = Render("fighter_selection", "class_fighter.html", "")

\* ------------------------------------------------------ Step 4: skills
SKILL_ABILITIES ==
    [s \in {"Athletics"} |-> "strength"] @@
    [s \in {"Acrobatics", "Sleight of Hand", "Stealth"} |-> "dexterity"] @@
    [s \in {"Arcana", "History", "Investigation", "Nature", "Religion"}
        |-> "intelligence"] @@
    [s \in {"Animal Handling", "Insight", "Medicine", "Perception",
            "Survival"} |-> "wisdom"] @@
    [s \in {"Deception", "Intimidation", "Performance", "Persuasion"}
        |-> "charisma"]

\* name.replace('_', ' ').strip().lower() for the form values of the model
SkillKey ==
    [s \in DOMAIN SKILL_ABILITIES |-> s] @@
    [s \in {"sleight_of_hand"} |-> "Sleight of Hand"] @@
    [s \in {"Lockpicking"} |-> "lockpicking"]

normalize_skill_name(name) ==
    IF \E key \in DOMAIN SKILL_ABILITIES : SkillKey[name] = SkillKey[key]
    THEN CHOOSE key \in DOMAIN SKILL_ABILITIES : SkillKey[name] = SkillKey[key]
    ELSE name

SeqMap(Op(_), q) == [i \in 1..Len(q) |-> Op(q[i])]

\* (skills, expertise) submissions of the skills form
SkillsInputs ==
    { \* Cleric / Wizard / Fighter pools
      <<<<"History", "Insight">>, <<>>>>,
      <<<<"History", "Religion">>, <<>>>>,
      <<<<"History">>, <<>>>>,
      <<<<"History", "History">>, <<>>>>,
      <<<<"History", "Religion">>, <<"History">>>>,
      <<<<>>, <<>>>>,
      \* Rogue pool
      <<<<"Stealth", "Deception", "Insight", "Perception">>, <<>>>>,
      <<<<"Stealth", "Deception", "Insight", "Perception">>,
        <<"Stealth", "Perception">>>>,
      <<<<"Stealth", "Deception", "Insight", "Perception">>,
        <<"Stealth", "Stealth">>>>,
      <<<<"Stealth", "Deception", "Insight", "Perception">>,
        <<"Stealth", "Athletics">>>>,
      <<<<"Stealth", "Deception", "Insight", "Perception">>,
        <<"Stealth", "Deception", "Insight">>>>,
      <<<<"Stealth", "Deception", "Insight">>, <<"Stealth", "Deception">>>>,
      <<<<"Stealth", "Stealth", "Insight", "Perception">>,
        <<"Stealth", "Insight">>>>,
      <<<<"Stealth", "Deception", "Insight", "Lockpicking">>,
        <<"Stealth", "Insight">>>> }

skills_required(char_class) == IF char_class = "Rogue" THEN 4 ELSE 2

\* SelectMultipleField.pre_validate: every submitted value is a choice
ValidChoices(data, choices) == \A i \in 1..Len(data) : data[i] \in Range(choices)

\* the errors of SkillsForm.validate(), by field
SkillsFormErrors(char_class, skills, expertise) ==
    LET allowed == CLASS_SKILLS[char_class]
        expertise_choices == IF char_class = "Rogue" THEN allowed ELSE <<>>
        skills_err ==
            \/ skills = <<>>                          \* DataRequired
            \/ ~ValidChoices(skills, allowed)
            \/ Len(skills) # skills_required(char_class)
        expertise_err ==
            \/ ~ValidChoices(expertise, expertise_choices)
            \/ /\ char_class = "Rogue"
               /\ \/ Len(expertise) # 2
                  \/ \E i \in 1..Len(expertise) :
                        expertise[i] \notin Range(skills)
    IN  (IF skills_err THEN {"skills"} ELSE {}) \cup
        (IF expertise_err THEN {"expertise"} ELSE {})

step4_skills(method, skills, expertise) ==
    LET char_class == Get(session, "class", None) IN
    IF char_class = None
    THEN /\ session' = session
         /\ response' = Redirect("step4_skills", "step3_class")
    ELSE IF method = "POST"
    THEN LET errors == SkillsFormErrors(char_class, skills, expertise) IN
         IF /\ char_class = "Rogue"
            /\ Len(skills) = 4
            /\ errors = {"expertise"}
         THEN /\ session' = session
              /\ response' = Render("step4_skills", "step4_skills.html",
                                    "show_expertise")
         ELSE IF errors = {}
         THEN LET normalized_skills == SeqMap(normalize_skill_name, skills)
                  normalized_expertise ==
                      SeqMap(normalize_skill_name, expertise)
                  s1 == Set(session, "skill_proficiencies", normalized_skills)
              IN  /\ session' = Set(s1, "expertise",
                                    IF expertise # <<>>
                                    THEN normalized_expertise ELSE <<>>)
                  /\ response' =
                       IF char_class \in {"Wizard", "Cleric"}
                       THEN Redirect("step4_skills", "spell_selection")
                       ELSE Redirect("step4_skills", "step5_equipment")
         ELSE /\ session' = session
              /\ response' = Render("step4_skills", "step4_skills.html",
                                    "invalid")
    ELSE /\ session' = session
         /\ response' = Render("step4_skills", "step4_skills.html", "")

\* ------------------------------------------------------ spell selection
wizard_cantrips ==
    {"acid_splash", "blade_ward", "chill_touch", "dancing_lights",
     "elementalism", "fire_bolt", "friends", "light", "mage_hand", "mending",
     "message", "mind_sliver", "minor_illusion", "poison_spray",
     "prestidigitation", "ray_of_frost", "shocking_grasp", "thunderclap",
     "toll_the_dead", "true_strike"}

wizard_level1_spells ==
    {"alarm", "burning_hands", "charm_person", "chromatic_orb", "color_spray",
     "comprehend_languages", "detect_magic", "disguise_self",
     "expeditious_retreat", "false_life", "feather_fall", "find_familiar",
     "fog_cloud", "grease", "ice_knife", "identify", "illusory_script", "jump",
     "longstrider", "mage_armor", "magic_missile",
     "protection_from_evil_and_good", "ray_of_sickness", "shield",
     "silent_image", "sleep", "tashas_hideous_laughter",
     "tensers_floating_disk", "thunderwave", "unseen_servant", "witch_bolt"}

cleric_cantrips ==
    {"guidance", "light", "mending", "resistance", "sacred_flame",
     "spare_the_dying", "thaumaturgy", "toll_the_dead", "word_of_radiance"}

level1_cleric_spells ==
    {"bane", "bless", "command", "create_or_destroy_water", "cure_wounds",
     "detect_evil_and_good", "detect_magic", "detect_poison_and_disease",
     "guiding_bolt", "healing_word", "inflict_wounds",
     "protection_from_evil_and_good", "purify_food_and_drink", "sanctuary",
     "shield_of_faith"}

\* form values that arrive as the text of a tuple, with the id they hold
TupleStrings ==
    [v \in {"('light', 'Light', False)"} |-> "light"] @@
    [v \in {"('command', 'Command')"} |-> "command"]

parse_spell_data(spell_value) ==
    IF spell_value \in DOMAIN TupleStrings THEN TupleStrings[spell_value]
    ELSE spell_value

Max(a, b) == IF a >= b THEN a ELSE b

spell_selection(method, cantrips, level1_spells) ==
    LET char_class == Get(session, "class", None)
        wisdom_score ==
            Get(Get(session, "adjusted_stats", EmptyBonus), "wisdom", 10)
        wisdom_mod == ability_modifier(wisdom_score)
        spells_preparable ==
            IF char_class = "Cleric" THEN Max(1, wisdom_mod + 1) ELSE 6
        creation_spells == 6
        parsed_cantrips == SeqMap(parse_spell_data, cantrips)
        parsed_level1_spells == SeqMap(parse_spell_data, level1_spells)
    IN
    IF char_class \notin {"Wizard", "Cleric"}
    THEN /\ session' = session
         /\ response' = Redirect("spell_selection", "step3_class")
    ELSE IF method = "POST"
    THEN IF Len(parsed_cantrips) # 3
         THEN /\ session' = session
              /\ response' = [Redirect("spell_selection", "spell_selection")
                                EXCEPT !.flash = "Select exactly 3 cantrips."]
         ELSE IF Len(parsed_level1_spells) # creation_spells
         THEN /\ session' = session
              /\ response' = [Redirect("spell_selection", "spell_selection")
                                EXCEPT !.flash =
                                  "Select exactly 6 first-level spells."]
         ELSE LET s1 == Set(session, "cantrips", parsed_cantrips)
                  s2 == Set(s1, "level1_spells", parsed_level1_spells)
              IN  /\ session' =
                       IF char_class = "Wizard" THEN s2
                       ELSE Set(s2, "spells_preparable", spells_preparable)
                  /\ response' =
                       Redirect("spell_selection", "step5_equipment")
    ELSE /\ session' = session
         /\ response' = Render("spell_selection", "spells.html", "")

\* ------------------------------------------------- equipment tables
CLASS_PROFICIENCIES ==
    [Fighter |-> [armor   |-> {"light", "medium", "heavy", "shields"},
                  weapons |-> {"simple_melee", "simple_ranged",
                               "martial_melee", "martial_ranged"}],
     Rogue   |-> [armor   |-> {"light"},
                  weapons |-> {"simple_melee", "simple_ranged",
                               "hand crossbow", "longsword", "rapier",
                               "shortsword"}],
     Wizard  |-> [armor   |-> {},
                  weapons |-> {"dagger", "dart", "sling", "quarterstaff",
                               "light crossbow"}],
     Cleric  |-> [armor   |-> {"light", "medium", "shields"},
                  weapons |-> {"simple_melee", "simple_ranged"}]]

has_armor_proficiency(char_class, armor_type) ==
    IF char_class \notin DOMAIN CLASS_PROFICIENCIES THEN FALSE
    ELSE armor_type \in CLASS_PROFICIENCIES[char_class].armor

\* called with a category string everywhere in characters.py
has_weapon_proficiency(char_class, weapon_info) ==
    IF char_class \notin DOMAIN CLASS_PROFICIENCIES THEN FALSE
    ELSE weapon_info \in CLASS_PROFICIENCIES[char_class].weapons

ArmorItem(name, gp, ac, add_dex, max_dex, stealth, type) ==
    [name |-> name, cost |-> [gp |-> gp], ac |-> ac, add_dex |-> add_dex,
     max_dex |-> max_dex, stealth_disadvantage |-> stealth, type |-> type]

\* max_dex: {} is None (no cap), {n} is the number n
ARMOR ==
    [light  |-> << ArmorItem("Padded", 5, 11, TRUE, {}, TRUE, "light"),
                   ArmorItem("Leather", 10, 11, TRUE, {}, FALSE, "light"),
                   ArmorItem("Studded Leather", 45, 12, TRUE, {}, FALSE,
                             "light") >>,
     medium |-> << ArmorItem("Hide", 10, 12, TRUE, {2}, FALSE, "medium"),
                   ArmorItem("Chain Shirt", 50, 13, TRUE, {2}, FALSE,
                             "medium"),
                   ArmorItem("Scale Mail", 50, 14, TRUE, {2}, TRUE, "medium"),
                   ArmorItem("Breastplate", 400, 14, TRUE, {2}, FALSE,
                             "medium"),
                   ArmorItem("Half Plate", 750, 15, TRUE, {2}, TRUE,
                             "medium") >>,
     heavy  |-> << ArmorItem("Ring Mail", 30, 14, FALSE, {0}, TRUE, "heavy"),
                   ArmorItem("Chain Mail", 75, 16, FALSE, {0}, TRUE, "heavy"),
                   ArmorItem("Splint", 200, 17, FALSE, {0}, TRUE, "heavy"),
                   ArmorItem("Plate", 1500, 18, FALSE, {0}, TRUE, "heavy") >>,
     shield |-> << [name |-> "Shield", cost |-> [gp |-> 10], ac_bonus |-> 2,
                    type |-> "shield"] >>]

WeaponItem(name, cost, damage, damage_type, properties) ==
    [name |-> name, cost |-> cost, damage |-> damage,
     damage_type |-> damage_type, properties |-> properties]

\* the entries of WEAPONS that the modelled selections use
WEAPONS ==
    [simple_melee |->
        << WeaponItem("Club", [sp |-> 1], "1d4", "bludgeoning", <<"light">>),
           WeaponItem("Dagger", [gp |-> 2], "1d4", "piercing",
                      <<"finesse", "light", "thrown">>),
           WeaponItem("Quarterstaff", [sp |-> 2], "1d6", "bludgeoning",
                      <<"versatile">>) >>,
     simple_ranged |->
        << WeaponItem("Light Crossbow", [gp |-> 25], "1d8", "piercing",
                      <<"ammunition", "loading", "two-handed">>),
           WeaponItem("Dart", [cp |-> 5], "1d4", "piercing",
                      <<"finesse", "thrown">>) >>,
     martial_melee |->
        << WeaponItem("Greatsword", [gp |-> 50], "2d6", "slashing",
                      <<"heavy", "two-handed">>),
           WeaponItem("Longsword", [gp |-> 15], "1d8", "slashing",
                      <<"versatile">>),
           WeaponItem("Rapier", [gp |-> 25], "1d8", "piercing",
                      <<"finesse">>) >>,
     martial_ranged |->
        << WeaponItem("Hand Crossbow", [gp |-> 75], "1d6", "piercing",
                      <<"ammunition", "light", "loading">>),
           WeaponItem("Longbow", [gp |-> 50], "1d8", "piercing",
                      <<"ammunition", "heavy", "two-handed">>) >>]

Item(name, cost) == [name |-> name, cost |-> cost]

\* the entries of the gear tables that the modelled selections use
ADVENTURING_GEAR ==
    [backpack |-> Item("Backpack", [gp |-> 2]),
     basket   |-> Item("Basket", [sp |-> 4]),
     bucket   |-> Item("Bucket", [cp |-> 5]),
     acid     |-> Item("Acid", [gp |-> 25])]

AMMUNITION_OPTIONS ==
    [arrows  |-> Item("Arrows (20)", [gp |-> 1]),
     bolts   |-> Item("Crossbow Bolts (20)", [gp |-> 1]),
     needles |-> Item("Blowgun Needles (50)", [gp |-> 1])]

ARCANE_FOCUS_OPTIONS ==
    [crystal |-> Item("Crystal", [gp |-> 10]),
     orb     |-> Item("Orb", [gp |-> 20]),
     rod     |-> Item("Rod", [gp |-> 10]),
     staff   |-> Item("Staff", [gp |-> 5]),
     wand    |-> Item("Wand", [gp |-> 10])]

HOLY_SYMBOL_OPTIONS ==
    [amulet    |-> Item("Amulet", [gp |-> 5]),
     emblem    |-> Item("Emblem", [gp |-> 5]),
     reliquary |-> Item("Reliquary", [gp |-> 5])]

MUSICAL_INSTRUMENT_OPTIONS ==
    [flute |-> Item("Flute", [gp |-> 2]),
     lute  |-> Item("Lute", [gp |-> 35])]

TOOL_OPTIONS ==
    [thieves_tools |-> Item("Thieves' Tools", [gp |-> 25]),
     herbalism_kit |-> Item("Herbalism Kit", [gp |-> 5])]

class_starting_gold ==
    [Cleric |-> 110, Fighter |-> 155, Rogue |-> 100, Wizard |-> 55]

\* ---------------------------------------------------- currency (gp)
\* Amounts of gp are floats in the code; here they are counted in
\* hundredths of a gp.
GP == 100

\* EquipmentForm._convert_to_gp
convert_to_gp(cost) ==
      Get(cost, "pp", 0) * 10 * GP + Get(cost, "gp", 0) * GP
    + (Get(cost, "sp", 0) * GP) \div 10 + (Get(cost, "cp", 0) * GP) \div 100

\* currency_utils.convert_gp_to_coins
convert_gp_to_coins(total_gp) ==
    LET pp == total_gp \div (10 * GP)
        remainder_gp == total_gp % (10 * GP)
        gp == remainder_gp \div GP
        fractional_gp == remainder_gp - gp * GP
        sp == (fractional_gp * 10) \div GP
        fractional_sp == fractional_gp * 10 - sp * GP
        cp == (fractional_sp * 10) \div GP
    IN  [pp |-> pp, gp |-> gp, sp |-> sp, cp |-> cp]

\* convert_gp_to_coins on the float it is given: total_gp is a binary float,
\* which holds an amount with a fractional part just above or just below its
\* decimal value, and int() truncates; the breakdown is that of the amount
\* or of one copper less
float_gp_to_coins(total_gp) ==
    {convert_gp_to_coins(total_gp)} \cup
    (IF total_gp > 0 /\ total_gp % GP # 0
     THEN {convert_gp_to_coins(total_gp - 1)} ELSE {})

\* currency_utils.get_cost_in_cp
get_cost_in_cp(cost_dict) ==
      Get(cost_dict, "pp", 0) * 1000 + Get(cost_dict, "gp", 0) * 100
    + Get(cost_dict, "sp", 0) * 10 + Get(cost_dict, "cp", 0)

\* currency_utils.convert_to_coins: divmod by 1000, 100 and 10
convert_to_coins(total_cp) ==
    LET pp == total_cp \div 1000
        r1 == total_cp % 1000
        gp == r1 \div 100
        r2 == r1 % 100
    IN  [pp |-> pp, gp |-> gp, sp |-> r2 \div 10, cp |-> r2 % 10]

\* characters.COIN_VALUES
COIN_VALUES == [pp |-> 500, gp |-> 100, sp |-> 10, cp |-> 1]

\* the denominations in the order cp_to_coins walks them
Denominations == <<"pp", "gp", "sp", "cp">>

\* coins_to_cp valued at the rates of get_cost_in_cp
coins_to_cp_at_thousand(coins) == get_cost_in_cp(coins)

\* characters.coins_to_cp: sum(COIN_VALUES[d] * count for d, count in coins)
coins_to_cp(coins) ==
    LET RECURSIVE Total(_)
        Total(ds) ==
            IF ds = <<>> THEN 0
            ELSE (IF Head(ds) \in DOMAIN coins
                  THEN COIN_VALUES[Head(ds)] * coins[Head(ds)] ELSE 0)
                 + Total(Tail(ds))
    IN  Total(Denominations)

\* cp_to_coins broken down at the rates of convert_to_coins
cp_to_coins_at_thousand(cp_total) == convert_to_coins(cp_total)

\* characters.cp_to_coins: divmod by each value of COIN_VALUES in turn
cp_to_coins(cp_total) ==
    LET RECURSIVE Break(_, _)
        Break(ds, rem) ==
            IF ds = <<>> THEN [d \in {} |-> 0]
            ELSE [d \in {Head(ds)} |-> rem \div COIN_VALUES[Head(ds)]]
                 @@ Break(Tail(ds), rem % COIN_VALUES[Head(ds)])
    IN  Break(Denominations, cp_total)

\* ------------------------------------------------------ EquipmentForm
EmptySpecial ==
    [has_tools |-> FALSE, tool_selection |-> "",
     has_musical_instrument |-> FALSE, musical_instrument_selection |-> "",
     has_arcane_focus |-> FALSE, arcane_focus_selection |-> "",
     has_holy_symbol |-> FALSE, holy_symbol_selection |-> "",
     has_ammunition |-> FALSE, ammunition_selection |-> "",
     has_spell_scroll |-> FALSE, spell_scroll_level |-> "0"]

EmptyForm ==
    [armor |-> <<>>, shield |-> <<>>,
     simple_melee |-> <<>>, simple_ranged |-> <<>>,
     martial_melee |-> <<>>, martial_ranged |-> <<>>,
     adventuring_gear |-> <<>>, special_equipment |-> EmptySpecial]

WeaponFields ==
    <<"simple_melee", "simple_ranged", "martial_melee", "martial_ranged">>

\* next((x for x in items if x['name'] == name), None), as a set
FindByName(items, name) ==
    IF \E i \in 1..Len(items) : items[i].name = name
    THEN {items[CHOOSE i \in 1..Len(items) :
                   /\ items[i].name = name
                   /\ \A j \in 1..(i - 1) : items[j].name # name]}
    ELSE {}

RECURSIVE SumCosts(_)
SumCosts(items) ==
    IF items = <<>> THEN 0
    ELSE convert_to_gp(Head(items).cost) + SumCosts(Tail(items))

\* the weapon records of one form field, in the order submitted
RECURSIVE FoundWeapons(_)
FoundWeapons(ids) ==
    IF ids = <<>> THEN <<>>
    ELSE LET id == Head(ids)
             found == FindByName(WEAPONS[id[1]], id[2])
         IN  (IF found = {} THEN <<>>
              ELSE LET w == CHOOSE x \in found : TRUE
                   IN  << [name |-> w.name, category |-> id[1],
                           damage |-> w.damage, damage_type |-> w.damage_type,
                           properties |-> w.properties, cost |-> w.cost] >>)
             \o FoundWeapons(Tail(ids))

AllWeapons(form) ==
    FoundWeapons(form.simple_melee) \o FoundWeapons(form.simple_ranged) \o
    FoundWeapons(form.martial_melee) \o FoundWeapons(form.martial_ranged)

RECURSIVE FoundGear(_)
FoundGear(keys) ==
    IF keys = <<>> THEN <<>>
    ELSE (IF Head(keys) \in DOMAIN ADVENTURING_GEAR
          THEN <<ADVENTURING_GEAR[Head(keys)]>> ELSE <<>>)
         \o FoundGear(Tail(keys))

\* one special-equipment category: its checkbox, its selection, its table
SpecialCost(has, selection, options) ==
    IF has /\ selection # "" /\ selection \in DOMAIN options
    THEN convert_to_gp(options[selection].cost) ELSE 0

SpellScrollCost(special) ==
    IF ~special.has_spell_scroll THEN 0
    ELSE IF special.spell_scroll_level = "0" THEN 30 * GP
    ELSE IF special.spell_scroll_level = "1" THEN 50 * GP
    ELSE 0

calculate_total_cost(form) ==
    LET armor == IF form.armor = <<>> THEN {}
                 ELSE FindByName(ARMOR[form.armor[1]], form.armor[2])
        shield == IF form.shield = <<>> THEN {}
                  ELSE FindByName(ARMOR[form.shield[1]], form.shield[2])
        sp == form.special_equipment
    IN    SumSeq([i \in 1..Cardinality(armor) |->
                    convert_to_gp((CHOOSE a \in armor : TRUE).cost)])
        + SumSeq([i \in 1..Cardinality(shield) |->
                    convert_to_gp((CHOOSE a \in shield : TRUE).cost)])
        + SumCosts(AllWeapons(form))
        + SpecialCost(sp.has_arcane_focus, sp.arcane_focus_selection,
                      ARCANE_FOCUS_OPTIONS)
        + SpecialCost(sp.has_holy_symbol, sp.holy_symbol_selection,
                      HOLY_SYMBOL_OPTIONS)
        + SpecialCost(sp.has_ammunition, sp.ammunition_selection,
                      AMMUNITION_OPTIONS)
        + SpecialCost(sp.has_musical_instrument,
                      sp.musical_instrument_selection,
                      MUSICAL_INSTRUMENT_OPTIONS)
        + SpecialCost(sp.has_tools, sp.tool_selection, TOOL_OPTIONS)
        + SpellScrollCost(sp)
        + SumCosts(FoundGear(form.adventuring_gear))

\* FlaskForm.validate(): every select field holds one of its choices
ChoiceOK(form) ==
    LET sp == form.special_equipment
        InTable(sel, options) == sel = "" \/ sel \in DOMAIN options
    IN  /\ \/ form.armor = <<>>
           \/ /\ form.armor[1] \in {"light", "medium", "heavy"}
              /\ FindByName(ARMOR[form.armor[1]], form.armor[2]) # {}
        /\ \/ form.shield = <<>>
           \/ /\ form.shield[1] = "shield"
              /\ FindByName(ARMOR.shield, form.shield[2]) # {}
        /\ \A f \in Range(WeaponFields) :
              \A i \in 1..Len(form[f]) :
                 /\ form[f][i][1] = f
                 /\ FindByName(WEAPONS[f], form[f][i][2]) # {}
        /\ \A i \in 1..Len(form.adventuring_gear) :
              form.adventuring_gear[i] \in DOMAIN ADVENTURING_GEAR
        /\ InTable(sp.arcane_focus_selection, ARCANE_FOCUS_OPTIONS)
        /\ InTable(sp.holy_symbol_selection, HOLY_SYMBOL_OPTIONS)
        /\ InTable(sp.ammunition_selection, AMMUNITION_OPTIONS)
        /\ InTable(sp.musical_instrument_selection,
                   MUSICAL_INSTRUMENT_OPTIONS)
        /\ InTable(sp.tool_selection, TOOL_OPTIONS)
        /\ sp.spell_scroll_level \in {"0", "1"}

\* EquipmentForm.validate: the verdict, the first error, and the figures
\* the form object holds afterwards
validate(form, char_class, budget, action) ==
    LET total_cost == calculate_total_cost(form)
        sp == form.special_equipment
        Verdict(ok, err, tc, rem) ==
            [valid |-> ok, error |-> err, total_cost |-> tc,
             remaining_funds |-> rem]
    IN
    IF ~ChoiceOK(form)
    THEN Verdict(FALSE, "Form validation failed", 0, 0)
    ELSE IF total_cost > budget
    THEN Verdict(FALSE, "Total cost exceeds budget", total_cost,
                 budget - total_cost)
    ELSE IF form.armor # <<>> /\ ~has_armor_proficiency(char_class,
                                                        form.armor[1])
    THEN Verdict(FALSE, "not proficient with armor", total_cost,
                 budget - total_cost)
    ELSE IF /\ char_class = "Wizard"
            /\ sp.has_holy_symbol /\ sp.holy_symbol_selection # ""
    THEN Verdict(FALSE, "Wizards cannot use Holy Symbols", total_cost,
                 budget - total_cost)
    ELSE IF /\ char_class = "Cleric"
            /\ sp.has_arcane_focus /\ sp.arcane_focus_selection # ""
    THEN Verdict(FALSE, "Clerics cannot use Arcane Focus items", total_cost,
                 budget - total_cost)
    ELSE IF action = "purchase" /\ total_cost > budget
    THEN Verdict(FALSE, "Total cost exceeds available funds", total_cost,
                 budget - total_cost)
    ELSE Verdict(TRUE, "", total_cost, budget - total_cost)

SpecialEntry(key, has, selection, options) ==
    IF has /\ selection # "" /\ selection \in DOMAIN options
    THEN [k \in {key} |-> options[selection]]
    ELSE [k \in {} |-> Item("", [gp |-> 0])]

\* EquipmentForm.selected_equipment
selected_equipment(form) ==
    LET armor == IF form.armor = <<>> THEN {}
                 ELSE FindByName(ARMOR[form.armor[1]], form.armor[2])
        shield == IF form.shield = <<>> THEN {}
                  ELSE FindByName(ARMOR[form.shield[1]], form.shield[2])
        sp == form.special_equipment
    IN  [armor |-> {[name |-> a.name, type |-> form.armor[1], ac |-> a.ac,
                     add_dex |-> a.add_dex, max_dex |-> a.max_dex,
                     cost |-> a.cost,
                     stealth_disadvantage |-> a.stealth_disadvantage]
                       : a \in armor},
         shield |-> {[name |-> x.name, ac_bonus |-> x.ac_bonus,
                      cost |-> x.cost] : x \in shield},
         weapons |-> AllWeapons(form),
         adventuring_gear |-> FoundGear(form.adventuring_gear),
         special_equipment |->
             SpecialEntry("arcane_focus", sp.has_arcane_focus,
                          sp.arcane_focus_selection, ARCANE_FOCUS_OPTIONS) @@
             SpecialEntry("holy_symbol", sp.has_holy_symbol,
                          sp.holy_symbol_selection, HOLY_SYMBOL_OPTIONS) @@
             SpecialEntry("musical_instrument", sp.has_musical_instrument,
                          sp.musical_instrument_selection,
                          MUSICAL_INSTRUMENT_OPTIONS) @@
             SpecialEntry("tools", sp.has_tools, sp.tool_selection,
                          TOOL_OPTIONS) @@
             SpecialEntry("ammunition", sp.has_ammunition,
                          sp.ammunition_selection, AMMUNITION_OPTIONS),
         total_cost_gp |-> calculate_total_cost(form)]

\* --------------------------------------------------- Step 5: equipment
\* the response of the equipment page: the figures and the equipment the
\* template is given
EquipmentPage(msg, preview, remaining_funds, coins_of, equipment) ==
    [op |-> "step5_equipment", result |-> "render",
     target |-> "step5_equipment.html", flash |-> msg, preview |-> preview,
     remaining_funds |-> remaining_funds,
     remaining_coins |-> convert_gp_to_coins(coins_of),
     equipment |-> equipment]

RECURSIVE WeaponWarnings(_, _)
WeaponWarnings(char_class, weapons) ==
    IF weapons = <<>> THEN <<>>
    ELSE LET weapon == Head(weapons)
             martial == weapon.category \in {"martial_melee", "martial_ranged"}
         IN  (IF martial /\ ~has_weapon_proficiency(char_class, weapon.category)
              THEN << [item |-> weapon.name, type |-> "weapon",
                       reason |-> "Not proficient with martial weapons"] >>
              ELSE <<>>)
             \o WeaponWarnings(char_class, Tail(weapons))

\* the proficiency pass of step5_equipment over the selected equipment
unusable_items(char_class, equipment) ==
    (IF equipment.armor # {} /\
        ~has_armor_proficiency(char_class,
                               (CHOOSE a \in equipment.armor : TRUE).type)
     THEN << [item |-> (CHOOSE a \in equipment.armor : TRUE).name,
              type |-> "armor", reason |-> "Not proficient with armor"] >>
     ELSE <<>>)
    \o
    (IF equipment.shield # {} /\ ~has_armor_proficiency(char_class, "shields")
     THEN << [item |-> (CHOOSE x \in equipment.shield : TRUE).name,
              type |-> "shield", reason |-> "Not proficient with shields"] >>
     ELSE <<>>)
    \o WeaponWarnings(char_class, equipment.weapons)

\* the equipment of a valid submission: the form's selection, the base AC
\* and the proficiency warnings
ProcessedEquipment(form, char_class, dex_mod) ==
    LET e == selected_equipment(form)
    IN  [k \in (DOMAIN e) \cup {"armor_class", "unusable_items"} |->
            IF k = "armor_class" THEN 10 + dex_mod
            ELSE IF k = "unusable_items" THEN unusable_items(char_class, e)
            ELSE e[k]]

Actions == {"purchase", "preview", "toggle_special", "update_spells", ""}

step5_equipment(method, from_step4, action, form) ==
    LET char_class == Get(session, "class", None) IN
    IF char_class = None
    THEN /\ session' = session
         /\ response' = Redirect("step5_equipment", "step3_class")
    ELSE
    LET s0 == IF method = "GET" /\ from_step4
              THEN PopAll(session, <<"coins_left", "equipment">>)
              ELSE session
        dex_mod == ability_modifier(
            Get(Get(session, "adjusted_stats", EmptyBonus), "dexterity", 10))
        starting_gp == class_starting_gold[char_class]
        s1 == Set(Set(s0, "coins_left",
                      [pp |-> 0, gp |-> starting_gp, sp |-> 0, cp |-> 0]),
                  "previous_class", char_class)
        budget_gp == starting_gp * GP
        blank == [armor |-> {}, shield |-> {}, weapons |-> <<>>,
                  armor_class |-> 10 + dex_mod, total_cost_gp |-> 0]
    IN
    IF method = "GET"
    THEN /\ session' = s1
         /\ response' = EquipmentPage("", FALSE, budget_gp, budget_gp, blank)
    ELSE IF action \in {"toggle_special", "update_spells"}
    THEN /\ session' = s1
         /\ response' = EquipmentPage("", FALSE, 0, budget_gp, blank)
    ELSE
    LET v == validate(form, char_class, budget_gp, action) IN
    IF ~v.valid
    THEN /\ session' = s1
         /\ response' = EquipmentPage(v.error, FALSE, v.remaining_funds,
                                      v.remaining_funds, blank)
    ELSE
    LET total_cost_gp == calculate_total_cost(form)
        remaining_gp == budget_gp - total_cost_gp
        equipment == ProcessedEquipment(form, char_class, dex_mod)
    IN
    \E remaining_coins \in float_gp_to_coins(remaining_gp) :
    LET s2 == Set(s1, "coins_left", remaining_coins) IN
    IF action = "preview"
    THEN /\ session' = s2
         /\ response' = [EquipmentPage("", TRUE, v.remaining_funds,
                                       v.remaining_funds, equipment)
                           EXCEPT !.remaining_coins = remaining_coins]
    ELSE IF action = "purchase"
    THEN IF v.remaining_funds >= 0
         THEN /\ session' = Set(Set(s2, "equipment", equipment),
                                "coins_left", remaining_coins)
              /\ response' =
                   [Redirect("step5_equipment", "character_name") EXCEPT
                      !.flash = IF equipment.unusable_items # <<>>
                                THEN "Warning: not proficient" ELSE ""]
         ELSE /\ session' = s2
              /\ response' = EquipmentPage("You don't have enough funds",
                                           FALSE, v.remaining_funds,
                                           v.remaining_funds, equipment)
    ELSE /\ session' = s2
         /\ response' = EquipmentPage("", FALSE, budget_gp, budget_gp, blank)

\* ------------------------------------------------------ character name
\* str.strip() on the names of the model
Stripped ==
    [n \in {"Aldric", " Aldric "} |-> "Aldric"] @@
    [n \in {"Brom", "Brom "} |-> "Brom"] @@
    [n \in {"", "   "} |-> ""]

NameInputs == DOMAIN Stripped

\* the name stored as typed, accepted whenever it is not the empty string
character_name_unstripped(method, name) ==
    IF method = "POST" /\ name # ""
    THEN /\ session' = Set(session, "character_name", name)
         /\ response' = Redirect("character_name", "step6_summary")
    ELSE /\ session' = session
         /\ response' = Render("character_name", "character_name.html",
                               IF method = "POST"
                               THEN "Please enter a character name." ELSE "")

character_name(method, name) ==
    IF method = "POST" /\ Stripped[name] # ""
    THEN /\ session' = Set(session, "character_name", Stripped[name])
         /\ response' = Redirect("character_name", "step6_summary")
    ELSE /\ session' = session
         /\ response' = Render("character_name", "character_name.html",
                               IF method = "POST"
                               THEN "Please enter a character name." ELSE "")

\* ---------------------------------------------------- armor class
\* armor and shield are sets of at most one record (the empty set is None)
calculate_ac(armor, shield, dex_modifier) ==
    LET base_ac == 10 IN
    IF armor = {} THEN base_ac + dex_modifier
    ELSE LET a == CHOOSE x \in armor : TRUE
             dex_bonus ==
                 IF a.add_dex
                 THEN IF a.max_dex # {}
                      THEN Min(dex_modifier, CHOOSE n \in a.max_dex : TRUE)
                      ELSE dex_modifier
                 ELSE 0
             total_ac == a.ac + dex_bonus
         IN  IF shield # {}
             THEN total_ac + (CHOOSE x \in shield : TRUE).ac_bonus
             ELSE total_ac

\* ----------------------------------------------------- Step 6: summary
\* the save DC without its base of 8
calc_spell_save_dc_without_base(cast_mod, prof_bonus) ==
    prof_bonus + cast_mod

calc_spell_save_dc(cast_mod, prof_bonus) == 8 + prof_bonus + cast_mod

calc_spell_attack_bonus(cast_mod, prof_bonus) == prof_bonus + cast_mod

\* sorted(skills_list, key=name): the skill names in ascending order
SortedSkills ==
    <<"Acrobatics", "Animal Handling", "Arcana", "Athletics", "Deception",
      "History", "Insight", "Intimidation", "Investigation", "Medicine",
      "Nature", "Perception", "Performance", "Persuasion", "Religion",
      "Sleight of Hand", "Stealth", "Survival">>

\* abbr[:3].upper()
Abbrev ==
    [strength |-> "STR", dexterity |-> "DEX", constitution |-> "CON",
     intelligence |-> "INT", wisdom |-> "WIS", charisma |-> "CHA"]

\* session.get("skill_proficiencies") or session.get("skills") or []
SummaryProfs(s) ==
    IF Get(s, "skill_proficiencies", <<>>) # <<>>
    THEN Range(s["skill_proficiencies"])
    ELSE Range(Get(s, "skills", <<>>))

SkillEntry(skill, ability_mods, profs, expertise) ==
    LET abbr == SKILL_ABILITIES[skill]
        is_prof == skill \in profs
        has_expertise == skill \in expertise
        prof_modifier == IF has_expertise THEN PROFICIENCY_BONUS * 2
                         ELSE IF is_prof THEN PROFICIENCY_BONUS ELSE 0
    IN  [name |-> skill, ability |-> Abbrev[abbr],
         mod |-> ability_mods[abbr] + prof_modifier,
         proficient |-> is_prof, expertise |-> has_expertise]

\* the display name of a stored spell id: the label of the spell lists,
\* the id itself when no list has it
SpellLabel ==
    [i \in {"fire_bolt"} |-> "Fire Bolt"] @@ [i \in {"light"} |-> "Light"] @@
    [i \in {"mage_hand"} |-> "Mage Hand"] @@ [i \in {"alarm"} |-> "Alarm"] @@
    [i \in {"grease"} |-> "Grease"] @@ [i \in {"jump"} |-> "Jump"] @@
    [i \in {"shield"} |-> "Shield"] @@ [i \in {"sleep"} |-> "Sleep"] @@
    [i \in {"identify"} |-> "Identify"] @@
    [i \in {"guidance"} |-> "Guidance"] @@
    [i \in {"mending"} |-> "Mending"] @@ [i \in {"bane"} |-> "Bane"] @@
    [i \in {"bless"} |-> "Bless"] @@ [i \in {"command"} |-> "Command"] @@
    [i \in {"cure_wounds"} |-> "Cure Wounds"] @@
    [i \in {"sanctuary"} |-> "Sanctuary"] @@
    [i \in {"shield_of_faith"} |-> "Shield of Faith"] @@
    [i \in {"thunderwave"} |-> "Thunderwave"]

\* spell_lookup.get(spell_id, spell_id)
SpellNames(ids) ==
    [i \in 1..Len(ids) |->
        IF ids[i] \in DOMAIN SpellLabel THEN SpellLabel[ids[i]] ELSE ids[i]]

\* the weapon loop of step6_summary marks every stored weapon
MarkWeapons(char_class, weapons) ==
    [i \in 1..Len(weapons) |->
        [k \in (DOMAIN weapons[i]) \cup {"proficient"} |->
            IF k = "proficient"
            THEN has_weapon_proficiency(char_class, weapons[i].category)
            ELSE weapons[i][k]]]

step6_summary ==
    IF ~Has(session, "stats") \/ ~Has(session, "class")
    THEN /\ session' = session
         /\ response' = Redirect("step6_summary", "step1_abilities")
    ELSE
    LET stats == Get(session, "adjusted_stats", session["stats"])
        char_class == session["class"]
        prof_bonus == PROFICIENCY_BONUS
        spellcasting_ability ==
            IF char_class = "Wizard" THEN "intelligence"
            ELSE IF char_class = "Cleric" THEN "wisdom" ELSE None
        cast_mod == IF spellcasting_ability = None THEN 0
                    ELSE ability_modifier(stats[spellcasting_ability])
        spell_save_dc == IF spellcasting_ability = None THEN 0
                         ELSE calc_spell_save_dc(cast_mod, prof_bonus)
        spell_attack_bonus == IF spellcasting_ability = None THEN 0
                              ELSE calc_spell_attack_bonus(cast_mod, prof_bonus)
        ability_mods == [a \in DOMAIN stats |-> ability_modifier(stats[a])]
        profs == SummaryProfs(session)
        expertise == Range(Get(session, "expertise", <<>>))
        skills_list ==
            [i \in 1..Len(SortedSkills) |->
                SkillEntry(SortedSkills[i], ability_mods, profs, expertise)]
        passive_perception ==
            10 + ability_mods["wisdom"]
               + (IF "Perception" \in profs THEN prof_bonus ELSE 0)
        s0 == IF Has(session, "equipment")
              THEN Set(session, "equipment",
                       [session["equipment"] EXCEPT
                          !.weapons = MarkWeapons(char_class, @)])
              ELSE session
        s1 == Set(s0, "skills_list", skills_list)
        s2 == Set(s1, "passive_perception", passive_perception)
        s3 == Set(s2, "spell_save_dc", spell_save_dc)
        s4 == Set(s3, "spell_attack_bonus", spell_attack_bonus)
    IN  /\ session' =
             IF char_class \in {"Wizard", "Cleric"}
             THEN Set(Set(s4, "cantrip_names",
                          SpellNames(Get(session, "cantrips", <<>>))),
                      "level1_spell_names",
                      SpellNames(Get(session, "level1_spells", <<>>)))
             ELSE s4
        /\ response' =
             [op |-> "step6_summary", result |-> "render",
              target |-> "summary.html", flash |-> "",
              armor_class |->
                 IF ~Has(session, "equipment")
                 THEN 10 + ability_mods["dexterity"]
                 ELSE IF "armor_class" \in DOMAIN session["equipment"]
                 THEN session["equipment"].armor_class
                 ELSE calculate_ac(session["equipment"].armor,
                                   session["equipment"].shield,
                                   ability_mods["dexterity"]),
              max_hp |-> Get(session, "max_hp", 0)]

\* ------------------------------------------------------------- machine
EmptySession == [k \in {} |-> None]

Init ==
    /\ session = EmptySession
    /\ response = Render("start", "index.html", "")

\* One disjunct per route handler, under a set of requests.
Step1(seeds) == \E seed \in seeds : step1_abilities(seed)

Step2(races) == \E race \in races, saved \in BOOLEAN : step2_race(race, saved)

Step3(requests) == \E r \in requests : step3_class(r[1], r[2])

FighterStep(requests) == \E r \in requests : fighter_selection(r[1], r[2], r[3])

Step4(requests) == \E r \in requests : step4_skills(r[1], r[2], r[3])

SpellStep(requests) == \E r \in requests : spell_selection(r[1], r[2], r[3])

Step5(requests) == \E r \in requests : step5_equipment(r[1], r[2], r[3], r[4])

NameStep(requests) == \E r \in requests : character_name(r[1], r[2])

Step6 == step6_summary

\* ---- requests
Leather == [EmptyForm EXCEPT !.armor = <<"light", "Leather">>]

FighterKit ==
    [EmptyForm EXCEPT !.armor = <<"light", "Leather">>,
                      !.martial_melee = << <<"martial_melee", "Longsword">> >>]

ShieldAndSword ==
    [EmptyForm EXCEPT !.shield = <<"shield", "Shield">>,
                      !.martial_melee = << <<"martial_melee", "Longsword">> >>]

ChainMail == [EmptyForm EXCEPT !.armor = <<"heavy", "Chain Mail">>]

Plate == [EmptyForm EXCEPT !.armor = <<"heavy", "Plate">>]

EquipmentForms == {EmptyForm, Leather, FighterKit, ShieldAndSword, ChainMail,
                   Plate}

ValidCantrips == <<"fire_bolt", "light", "mage_hand">>

ValidLevel1 == <<"alarm", "grease", "jump", "shield", "sleep", "identify">>

ClericCantrips == <<"guidance", "light", "mending">>

ClericLevel1 ==
    <<"bane", "bless", "command", "cure_wounds", "sanctuary",
      "shield_of_faith">>

\* (cantrips, level1_spells) submissions of the spell form
SpellInputs ==
    { <<ValidCantrips, ValidLevel1>>,
      <<ClericCantrips, ClericLevel1>>,
      <<<<"fire_bolt", "light">>, ValidLevel1>>,
      <<ValidCantrips, <<"alarm", "grease", "jump", "shield", "sleep">>>>,
      <<<<"fire_bolt", "light", "mage_hand", "guidance">>, ValidLevel1>>,
      <<ValidCantrips, ValidLevel1 \o <<"thunderwave">>>>,
      <<<<>>, <<>>>>,
      <<<<"fire_bolt", "('light', 'Light', False)", "mage_hand">>,
        ValidLevel1>>,
      <<<<"wish", "light", "mage_hand">>, ValidLevel1>>,
      <<ValidCantrips,
        <<"fireball", "grease", "jump", "shield", "sleep", "identify">>>> }

RogueSkills == <<"Stealth", "Deception", "Insight", "Perception">>

\* ---- the whole wizard on the Fighter and Wizard paths, one request of
\* each kind
Next ==
    \/ Step1({1})
    \/ Step2({"Elf"})
    \/ Step3({<<"Fighter", "strength">>, <<"Wizard", None>>})
    \/ FighterStep({<<"POST", "Dueling", <<"Athletics", "Perception">>>>})
    \/ Step4({<<"POST", <<"History", "Religion">>, <<>>>>})
    \/ SpellStep({<<"POST", ValidCantrips, ValidLevel1>>})
    \/ Step5({<<"POST", FALSE, "purchase", Leather>>})
    \/ NameStep({<<"POST", "Aldric">>})
    \/ Step6

Spec == Init /\ [][Next]_vars

\* ---- the class and skills steps under every skills submission
NextSkills ==
    \/ Step1(1..NumSeeds)
    \/ Step3({<<c, IF c = "Fighter" THEN "strength" ELSE None>> :
                 c \in ClassInputs})
    \/ FighterStep({<<"POST", r[1], r[2]>> : r \in FighterInputs})
    \/ Step4({<<m, r[1], r[2]>> : m \in Methods, r \in SkillsInputs})

SpecSkills == Init /\ [][NextSkills]_vars

\* ---- the class, skills and spell steps under every spell submission
NextSpells ==
    \/ Step3({<<"Wizard", None>>, <<"Cleric", None>>, <<"Rogue", None>>})
    \/ Step4({<<"POST", <<"History", "Religion">>, <<>>>>})
    \/ SpellStep({<<m, r[1], r[2]>> : m \in Methods, r \in SpellInputs})

SpecSpells == Init /\ [][NextSpells]_vars

\* ---- the equipment step under every form and action
NextEquip ==
    \/ Step1(1..NumSeeds)
    \/ Step2({"Elf"})
    \/ Step3({<<c, IF c = "Fighter" THEN "strength" ELSE None>> :
                 c \in Classes})
    \/ Step5({<<"GET", b, "", EmptyForm>> : b \in BOOLEAN} \cup
             {<<"POST", FALSE, a, f>> : a \in {"purchase", "preview"},
                                         f \in EquipmentForms})
    \/ Step6

SpecEquip == Init /\ [][NextEquip]_vars

\* ---- the class step, the Fighter sub-choice, the skills step and the
\* spell step: the routes between them
NextRoute ==
    \/ Step3({<<c, None>> : c \in ClassInputs} \cup
             {<<"Fighter", a>> : a \in {"strength", "dexterity", "charisma"}})
    \/ FighterStep({<<m, r[1], r[2]>> : m \in Methods, r \in FighterInputs})
    \/ Step4({<<"POST", <<"History", "Insight">>, <<>>>>,
              <<"POST", <<"History", "Religion">>, <<>>>>,
              <<"POST", RogueSkills, <<"Stealth", "Perception">>>>,
              <<"POST", <<"History">>, <<>>>>})
    \/ SpellStep({<<"POST", ValidCantrips, ValidLevel1>>,
                  <<"POST", ValidCantrips, <<>>>>})

SpecRoute == Init /\ [][NextRoute]_vars

\* ---- abilities, race and class: the scores and the hit points
NextStats ==
    \/ Step1(1..NumSeeds)
    \/ Step2(RaceInputs)
    \/ Step3({<<c, IF c = "Fighter" THEN "strength" ELSE None>> :
                 c \in Classes})

SpecStats == Init /\ [][NextStats]_vars

\* ---- the naming step under every name, on any build
NextName ==
    \/ Step1({1})
    \/ Step2({"Elf", "Human"})
    \/ Step3({<<c, IF c = "Fighter" THEN "strength" ELSE None>> :
                 c \in Classes})
    \/ NameStep(Methods \X NameInputs)

SpecName == Init /\ [][NextName]_vars

\* ---- abilities, race, class and the summary: the derived spell stats
NextFinal ==
    \/ Step1(1..NumSeeds)
    \/ Step2({"Elf", "Dwarf"})
    \/ Step3({<<c, IF c = "Fighter" THEN "strength" ELSE None>> :
                 c \in Classes})
    \/ Step6

SpecFinal == Init /\ [][NextFinal]_vars

\* ---- the equipment step under selections of every kind of item, some
\* priced in silver and copper
CostForms ==
    {EmptyForm, FighterKit,
     [EmptyForm EXCEPT !.simple_melee = << <<"simple_melee", "Quarterstaff">> >>],
     [EmptyForm EXCEPT !.simple_melee = << <<"simple_melee", "Dagger">> >>,
                       !.adventuring_gear = <<"backpack", "basket">>],
     [EmptyForm EXCEPT !.shield = <<"shield", "Shield">>,
                       !.simple_ranged = << <<"simple_ranged", "Dart">> >>,
                       !.special_equipment.has_ammunition = TRUE,
                       !.special_equipment.ammunition_selection = "arrows",
                       !.special_equipment.has_tools = TRUE,
                       !.special_equipment.tool_selection = "herbalism_kit"],
     [EmptyForm EXCEPT !.armor = <<"light", "Leather">>,
                       !.special_equipment.has_spell_scroll = TRUE,
                       !.special_equipment.spell_scroll_level = "1"],
     [EmptyForm EXCEPT !.special_equipment.has_spell_scroll = TRUE,
                       !.special_equipment.has_musical_instrument = TRUE,
                       !.special_equipment.musical_instrument_selection =
                           "flute"]}

NextPurchase ==
    \/ Step3({<<c, IF c = "Fighter" THEN "strength" ELSE None>> :
                 c \in Classes})
    \/ Step5({<<"GET", FALSE, "", EmptyForm>>} \cup
             {<<"POST", FALSE, a, f>> : a \in {"purchase", "preview"},
                                         f \in CostForms})

SpecPurchase == Init /\ [][NextPurchase]_vars

\* ---- calculate_ac as a function: the state is one call, session its
\* arguments and response its result
MaxDexModifier == 4

\* the dexterity modifiers of the calls, one of them negative
DexModifiers == -1..MaxDexModifier

ArmorChoices ==
    {{}} \cup {{a} : a \in UNION {Range(ARMOR[t]) :
                                     t \in {"light", "medium", "heavy"}}}

ShieldChoices == {{}} \cup {{x} : x \in Range(ARMOR["shield"])}

InitAC ==
    /\ session \in [armor : ArmorChoices, shield : ShieldChoices,
                    dex_modifier : DexModifiers]
    /\ response = [op |-> "call", result |-> 0]

calculate_ac_call ==
    /\ response.op = "call"
    /\ response' = [op |-> "calculate_ac",
                    result |-> calculate_ac(session.armor, session.shield,
                                            session.dex_modifier)]
    /\ UNCHANGED session

NextAC == calculate_ac_call

SpecAC == InitAC /\ [][NextAC]_vars

\* ---- the currency conversions as functions: the state is one call,
\* session its argument (a copper total or a coin breakdown) and response
\* its result
MaxCopper == 2500

MaxPlatinum == 2

MaxCoins == 10

Breakdowns ==
    [pp : 0..MaxPlatinum, gp : 0..MaxCoins, sp : 0..MaxCoins,
     cp : 0..MaxCoins]

InitCoins ==
    /\ session \in {[total |-> t] : t \in 0..MaxCopper} \cup
                   {[coins |-> c] : c \in Breakdowns}
    /\ response = [op |-> "call", result |-> 0]

Call(op, result) ==
    /\ response.op = "call"
    /\ response' = [op |-> op, result |-> result]
    /\ UNCHANGED session

cp_to_coins_call ==
    "total" \in DOMAIN session /\ Call("cp_to_coins", cp_to_coins(session.total))

convert_to_coins_call ==
    /\ "total" \in DOMAIN session
    /\ Call("convert_to_coins", convert_to_coins(session.total))

coins_to_cp_call ==
    "coins" \in DOMAIN session /\ Call("coins_to_cp", coins_to_cp(session.coins))

get_cost_in_cp_call ==
    /\ "coins" \in DOMAIN session
    /\ Call("get_cost_in_cp", get_cost_in_cp(session.coins))

convert_to_gp_call ==
    /\ "coins" \in DOMAIN session
    /\ Call("_convert_to_gp", convert_to_gp(session.coins))

NextCoins ==
    \/ cp_to_coins_call
    \/ convert_to_coins_call
    \/ coins_to_cp_call
    \/ get_cost_in_cp_call
    \/ convert_to_gp_call

SpecCoins == InitCoins /\ [][NextCoins]_vars

\* =============================================================== claims
\* the value stored under a key is the same in both sessions
SameKey(s, t, k) ==
    /\ Has(s, k) <=> Has(t, k)
    /\ Has(s, k) => s[k] = t[k]

\* the armor_class rule of the specification (section 4.1)
armor_class(dex_mod, armor, shield) ==
    LET body ==
            IF armor = {} THEN 10 + dex_mod
            ELSE LET a == CHOOSE x \in armor : TRUE
                 IN  IF a.add_dex
                     THEN IF a.max_dex # {}
                          THEN a.ac + Min(dex_mod,
                                          CHOOSE n \in a.max_dex : TRUE)
                          ELSE a.ac + dex_mod
                     ELSE a.ac
    IN  IF shield = {} THEN body
        ELSE body + (CHOOSE x \in shield : TRUE).ac_bonus

\* the budget the equipment step gives a class, in hundredths of a gp
Budget(s) == class_starting_gold[s["class"]] * GP

\* the dexterity modifier the equipment step reads from a session
DexModifier(s) ==
    ability_modifier(Get(Get(s, "adjusted_stats", EmptyBonus),
                         "dexterity", 10))

\* C1: after any successful class choice the state holds no skill
\* proficiencies (those of the Fighter sub-choice included), no expertise,
\* no fighting style, no equipment and no spell selections.
ClassChoiceClearsDownstream ==
    [][(response'.op = "step3_class" /\ response'.result = "redirect")
       => /\ ~Has(session', "skill_proficiencies")
          /\ ~Has(session', "skills")
          /\ Get(session', "expertise", <<>>) = <<>>
          /\ ~Has(session', "fighting_style")
          /\ ~Has(session', "equipment")
          /\ ~Has(session', "cantrips")
          /\ ~Has(session', "level1_spells")]_vars

\* C2: a purchase whose total cost exceeds the budget is rejected with a
\* budget error, and the stored equipment and the worth of the stored
\* remaining funds are the same after the attempt as before it.
OverBudgetPurchaseChangesNothing ==
    [][\A f \in EquipmentForms :
          (/\ Has(session, "class")
           /\ Has(session, "coins_left")
           /\ calculate_total_cost(f) > Budget(session)
           /\ step5_equipment("POST", FALSE, "purchase", f))
          => /\ response'.result = "render"
             /\ response'.flash = "Total cost exceeds budget"
             /\ SameKey(session, session', "equipment")
             /\ Has(session', "coins_left")
             /\ convert_to_gp(session'["coins_left"]) =
                    convert_to_gp(session["coins_left"])]_vars

\* C3: a preview returns the total cost and remaining funds a purchase of
\* the same selection commits, and leaves the whole character state as it
\* was, the stored remaining funds and the stored equipment included.
PreviewChangesNothing ==
    [][\A f \in EquipmentForms :
          (/\ Has(session, "class")
           /\ validate(f, session["class"], Budget(session), "preview").valid
           /\ step5_equipment("POST", FALSE, "preview", f))
          => /\ response'.preview
             /\ response'.equipment.total_cost_gp = calculate_total_cost(f)
             /\ response'.remaining_funds =
                    Budget(session) - calculate_total_cost(f)
             /\ session' = session]_vars

\* an item of the form the class is not proficient with
NonProficientItem(char_class, f) ==
    \/ f.armor # <<>> /\ ~has_armor_proficiency(char_class, f.armor[1])
    \/ f.shield # <<>> /\ ~has_armor_proficiency(char_class, "shields")
    \/ \E k \in {"martial_melee", "martial_ranged"} :
          f[k] # <<>> /\ ~has_weapon_proficiency(char_class, k)

\* C4: a purchase within budget that includes armor, a shield or a weapon
\* the class is not proficient with is committed, and the item is flagged.
NonProficientPurchaseCommitted ==
    [][\A f \in EquipmentForms :
          (/\ Has(session, "class")
           /\ calculate_total_cost(f) <= Budget(session)
           /\ NonProficientItem(session["class"], f)
           /\ step5_equipment("POST", FALSE, "purchase", f))
          => /\ response'.result = "redirect"
             /\ Has(session', "equipment")
             /\ session'["equipment"].armor = selected_equipment(f).armor
             /\ session'["equipment"].unusable_items # <<>>]_vars

\* C5: after a committed purchase the stored armor class is
\* armor_class(dexterity modifier, selected armor, selected shield), and
\* the summary shows that armor class.
StoredArmorClassFollowsRule ==
    [][/\ (response'.op = "step5_equipment"
             /\ response'.target = "character_name")
          => session'["equipment"].armor_class =
                 armor_class(DexModifier(session'),
                             session'["equipment"].armor,
                             session'["equipment"].shield)
       /\ (response'.op = "step6_summary" /\ response'.result = "render"
             /\ Has(session', "equipment"))
          => response'.armor_class =
                 armor_class(ability_modifier(
                                 Get(session', "adjusted_stats",
                                     session'["stats"])["dexterity"]),
                             session'["equipment"].armor,
                             session'["equipment"].shield)]_vars

\* C6: calculate_ac is the armor_class rule: 10 + dex without armor, the
\* armor's ac plus the (capped, full or no) dex bonus with armor, and the
\* shield's bonus added in every one of these cases.
CalculateAcFollowsRule ==
    response.op = "calculate_ac"
    => response.result =
           armor_class(session.dex_modifier, session.armor, session.shield)

\* C7: the stored expertise skills are a subset of the stored skill
\* proficiencies, are non-empty only for a Rogue, and then number exactly 2.
ExpertiseWellFormed ==
    LET expertise == Get(session, "expertise", <<>>)
        profs == Get(session, "skill_proficiencies", <<>>)
    IN  /\ Range(expertise) \subseteq Range(profs)
        /\ expertise # <<>> => Get(session, "class", None) = "Rogue"
        /\ expertise # <<>> => /\ Len(expertise) = 2
                               /\ Cardinality(Range(expertise)) = 2

\* a skills submission the specification accepts
SkillsWellFormed(char_class, skills, expertise) ==
    /\ Len(skills) = skills_required(char_class)
    /\ Cardinality(Range(skills)) = Len(skills)
    /\ Range(skills) \subseteq Range(CLASS_SKILLS[char_class])
    /\ char_class = "Rogue" =>
          /\ Len(expertise) = 2
          /\ Cardinality(Range(expertise)) = 2
          /\ Range(expertise) \subseteq Range(skills)

\* C8: the skills step succeeds only on exactly the required number of
\* distinct skills of the class's pool (and, for a Rogue, exactly 2
\* expertise skills among them); any other submission fails and leaves the
\* stored skills and expertise as they were.
SkillsStepAcceptsOnlyWellFormed ==
    [][\A r \in SkillsInputs :
          (/\ Get(session, "class", None) \in {"Cleric", "Wizard", "Rogue"}
           /\ ~SkillsWellFormed(session["class"], r[1], r[2])
           /\ step4_skills("POST", r[1], r[2]))
          => /\ response'.result # "redirect"
             /\ SameKey(session, session', "skill_proficiencies")
             /\ SameKey(session, session', "expertise")]_vars

\* the spell lists of a class
ClassCantrips(char_class) ==
    IF char_class = "Wizard" THEN wizard_cantrips ELSE cleric_cantrips

ClassLevel1(char_class) ==
    IF char_class = "Wizard" THEN wizard_level1_spells
    ELSE level1_cleric_spells

\* C9: after a successful spell step the state holds exactly 3 cantrips and
\* exactly 6 first-level spells, each of the class's own list; a submission
\* with another count fails and stores no spells.
SpellStepStoresClassSpells ==
    [][\A r \in SpellInputs :
          (/\ Get(session, "class", None) \in {"Wizard", "Cleric"}
           /\ spell_selection("POST", r[1], r[2]))
          => IF response'.target = "step5_equipment"
             THEN /\ Len(session'["cantrips"]) = 3
                  /\ Len(session'["level1_spells"]) = 6
                  /\ Range(session'["cantrips"])
                        \subseteq ClassCantrips(session["class"])
                  /\ Range(session'["level1_spells"])
                        \subseteq ClassLevel1(session["class"])
             ELSE /\ SameKey(session, session', "cantrips")
                  /\ SameKey(session, session', "level1_spells")]_vars

\* the skills step, or for a Fighter the sub-choice, has completed
SkillsDone(s) ==
    \/ Has(s, "skill_proficiencies")
    \/ Get(s, "class", None) = "Fighter" /\ Has(s, "skills")

\* C10: data of a later step is stored only if every earlier step on the
\* class's path has completed: race after abilities, class after race,
\* skills or the Fighter sub-choice after class, spells after skills,
\* equipment after skills and (Wizard, Cleric) spells, name after equipment,
\* derived stats after name.
StepsInOrder ==
    /\ Has(session, "race") => Has(session, "stats")
    /\ Has(session, "class") => Has(session, "adjusted_stats")
    /\ (Has(session, "skill_proficiencies") \/ Has(session, "fighting_style"))
          => Has(session, "class")
    /\ Has(session, "cantrips") => SkillsDone(session)
    /\ Has(session, "equipment")
          => /\ SkillsDone(session)
             /\ Get(session, "class", None) \in {"Wizard", "Cleric"}
                   => Has(session, "cantrips")
    /\ Has(session, "character_name") => Has(session, "equipment")
    /\ Has(session, "skills_list") => Has(session, "character_name")

\* C11: whenever the class is Fighter and the Fighter sub-choice has
\* succeeded (a fighting style is stored), the stored primary ability is
\* strength or dexterity, whatever classes were chosen before.
FighterHasChosenPrimaryAbility ==
    (Get(session, "class", None) = "Fighter" /\ Has(session, "fighting_style"))
    => Get(session, "primary_ability", None) \in {"strength", "dexterity"}

\* C12: the Fighter sub-choice succeeds only with exactly 2 skills of the
\* Fighter pool and a fighting style of the list of 10; another skill count
\* fails with the skill-count error, no style with the missing-style error,
\* and a failure stores neither a fighting style nor skills.
FighterChoiceAcceptsOnlyWellFormed ==
    [][\A r \in FighterInputs :
          (/\ Get(session, "class", None) = "Fighter"
           /\ Get(session, "primary_ability", None) # None
           /\ fighter_selection("POST", r[1], r[2]))
          => LET failed == /\ response'.result = "render"
                           /\ SameKey(session, session', "fighting_style")
                           /\ SameKey(session, session', "skills")
             IN  IF Len(r[2]) # 2
                 THEN /\ failed
                      /\ response'.flash =
                            "Fighters must select exactly 2 skills."
                 ELSE IF r[1] = None
                 THEN /\ failed
                      /\ response'.flash = "Please select a fighting style."
                 ELSE IF \/ ~(Range(r[2]) \subseteq Range(CLASS_SKILLS.Fighter))
                         \/ r[1] \notin Range(FIGHTING_STYLES)
                 THEN failed
                 ELSE TRUE]_vars

\* C13: a successful skills step leads to spell selection exactly for a
\* Wizard or Cleric and to equipment otherwise; a Fighter goes from the class
\* choice to the Fighter sub-choice, from there to equipment, and never
\* completes the generic skills step or the spell step.
RoutesFollowClassPath ==
    [][/\ (response'.op = "step4_skills" /\ response'.result = "redirect"
             /\ response'.target # "step3_class")
          => /\ session["class"] # "Fighter"
             /\ response'.target =
                   IF session["class"] \in {"Wizard", "Cleric"}
                   THEN "spell_selection" ELSE "step5_equipment"
       /\ (response'.op = "step3_class" /\ response'.result = "redirect"
             /\ session'["class"] = "Fighter")
          => response'.target = "fighter_selection"
       /\ (response'.op = "fighter_selection" /\ Has(session', "fighting_style")
             /\ response'.result = "redirect" /\ response'.flash = "")
          => response'.target = "step5_equipment"
       /\ (response'.op = "spell_selection"
             /\ response'.target = "step5_equipment")
          => session["class"] # "Fighter"]_vars

\* C14: choosing a class after a race sets max HP to the class's hit die
\* (Cleric 8, Fighter 10, Rogue 8, Wizard 6) plus the floor of
\* (adjusted constitution - 10) / 2, with no floor at 1, and sets current HP
\* to max HP.
ClassChoiceSetsHitPoints ==
    [][(/\ response'.op = "step3_class"
        /\ response'.result = "redirect"
        /\ Has(session, "adjusted_stats"))
       => LET hit_die == [Cleric |-> 8, Fighter |-> 10, Rogue |-> 8,
                          Wizard |-> 6][session'["class"]]
              con == session["adjusted_stats"]["constitution"]
          IN  /\ session'["max_hp"] = hit_die + ((con - 10) \div 2)
              /\ session'["current_hp"] = session'["max_hp"]]_vars

\* a Wizard chosen with adjusted constitution 9: 6 - 1 = 5 hit points
ClassChosenWithNegativeModifier ==
    /\ response.op = "step3_class"
    /\ response.result = "redirect"
    /\ Has(session, "adjusted_stats")
    /\ session["adjusted_stats"]["constitution"] = 9
    /\ session["class"] = "Wizard"
    /\ session["max_hp"] = 5
    /\ session["current_hp"] = 5

\* C15: for every non-negative copper total t, breaking t down into coins
\* and valuing the breakdown in copper returns t, for cp_to_coins with
\* coins_to_cp and for convert_to_coins with get_cost_in_cp.
TotalRoundTrip ==
    /\ response.op = "cp_to_coins"
          => coins_to_cp(response.result) = session.total
    /\ response.op = "convert_to_coins"
          => get_cost_in_cp(response.result) = session.total

\* 1234 cp broken down by cp_to_coins, platinum included
TotalBrokenDown ==
    /\ response.op = "cp_to_coins"
    /\ session.total = 1234
    /\ response.result = [pp |-> 2, gp |-> 2, sp |-> 3, cp |-> 4]

FixedExchangeRates ==
    response.op \in {"coins_to_cp", "get_cost_in_cp", "_convert_to_gp"}
    => response.result =
             1000 * session.coins.pp + 100 * session.coins.gp
           + 10 * session.coins.sp + session.coins.cp

\* the dice of a stream that are kept: every 1 and 2 is rolled again
KeptDice(stream) == SelectSeq(stream, LAMBDA d : d >= 3)

\* the sum of the three highest of the four kept dice of group i
ThreeHighest(kept, i) ==
    LET four == {4 * i - 3, 4 * i - 2, 4 * i - 1, 4 * i}
        low == CHOOSE j \in four : \A k \in four : kept[j] <= kept[k]
    IN  kept[4 * i - 3] + kept[4 * i - 2] + kept[4 * i - 1] + kept[4 * i]
        - kept[low]

\* C18: rolling abilities stores exactly six scores, one per ability, each
\* the sum of the three highest of four dice with values in 3..6 (every 1
\* and 2 rolled again), so each stored raw score is in 9..18.
RolledScoresInRange ==
    Has(session, "stats") =>
      /\ DOMAIN session["stats"] =
            {"strength", "dexterity", "constitution", "intelligence",
             "wisdom", "charisma"}
      /\ \A a \in DOMAIN session["stats"] : session["stats"][a] \in 9..18
      /\ \E seed \in 1..NumSeeds :
            LET kept == KeptDice(DiceStreams[seed])
            IN  /\ \A j \in 1..24 : kept[j] \in 3..6
                /\ \A i \in 1..6 :
                      session["stats"][ABILITY_LABELS[i]] =
                          ThreeHighest(kept, i)

\* rolled scores that hold both ends of the range
ExtremeScoresRolled ==
    /\ Has(session, "stats")
    /\ response.op = "step1_abilities"
    /\ \E a, b \in DOMAIN session["stats"] :
          session["stats"][a] = 18 /\ session["stats"][b] = 9

\* the races the race choice enumerates
EnumeratedRaces == {"Elf", "Dwarf", "Halfling", "Human"}

\* the configured bonus of a race for an ability, 0 when it lists none
ConfiguredBonus(race, k) ==
    CASE race = "Elf" /\ k = "dexterity" -> 2
      [] race = "Elf" /\ k = "charisma" -> 1
      [] race = "Dwarf" /\ k = "constitution" -> 2
      [] race = "Dwarf" /\ k = "strength" -> 1
      [] race = "Halfling" /\ k = "dexterity" -> 2
      [] race = "Halfling" /\ k = "constitution" -> 1
      [] OTHER -> 0

\* C19: choosing an enumerated race stores a complete six-entry adjusted
\* score set in which each ability is its raw score plus the race's bonus
\* for it (0 when none is listed); for Human the adjusted scores equal the
\* raw scores; the raw scores are left unchanged.
RaceChoiceAddsBonuses ==
    [][\A race \in EnumeratedRaces : \A saved \in BOOLEAN :
          (Has(session, "stats") /\ step2_race(race, saved)) =>
            /\ response'.result = "redirect"
            /\ Has(session', "adjusted_stats")
            /\ DOMAIN session'["adjusted_stats"] =
                  {"strength", "dexterity", "constitution", "intelligence",
                   "wisdom", "charisma"}
            /\ \A k \in DOMAIN session'["adjusted_stats"] :
                  session'["adjusted_stats"][k] =
                      session["stats"][k] + ConfiguredBonus(race, k)
            /\ (race = "Human" =>
                  session'["adjusted_stats"] = session["stats"])
            /\ session'["stats"] = session["stats"]]_vars

\* an Elf's adjusted scores: dexterity and charisma raised, the rest raw
ElfBonusesApplied ==
    /\ response.op = "step2_race"
    /\ response.result = "redirect"
    /\ Has(session, "race") /\ session["race"] = "Elf"
    /\ session["adjusted_stats"]["dexterity"] =
          session["stats"]["dexterity"] + 2
    /\ session["adjusted_stats"]["charisma"] =
          session["stats"]["charisma"] + 1
    /\ session["adjusted_stats"]["strength"] = session["stats"]["strength"]

\* C20: choosing a race outside the enumerated races fails and leaves the
\* stored race, adjusted scores and constitution modifier unchanged.
UnknownRaceRejected ==
    [][\A race \in RaceInputs \ EnumeratedRaces : \A saved \in BOOLEAN :
          (Has(session, "stats") /\ step2_race(race, saved)) =>
            /\ response'.result # "redirect"
            /\ SameKey(session, session', "race")
            /\ SameKey(session, session', "adjusted_stats")
            /\ SameKey(session, session', "constitution_modifier")]_vars

\* the name without the whitespace around it
Trimmed(name) ==
    CASE name \in {"Aldric", " Aldric "} -> "Aldric"
      [] name \in {"Brom", "Brom "} -> "Brom"
      [] OTHER -> ""

\* C21: naming succeeds only when the input is non-empty after trimming,
\* and then stores the trimmed name; an empty or whitespace-only name fails,
\* leaves the state unchanged and keeps the build on the naming step.
NamingStoresTrimmedName ==
    [][\A name \in {"Aldric", " Aldric ", "Brom", "Brom ", "", "   "} :
          character_name("POST", name) =>
            IF Trimmed(name) # ""
            THEN /\ response'.result = "redirect"
                 /\ response'.target = "step6_summary"
                 /\ session' = Set(session, "character_name", Trimmed(name))
            ELSE /\ response'.result = "render"
                 /\ response'.target = "character_name.html"
                 /\ session' = session]_vars

\* a blank name was refused after a name had been stored
BlankNameRefusedAfterNaming ==
    /\ response.op = "character_name"
    /\ response.result = "render"
    /\ response.flash = "Please enter a character name."
    /\ Has(session, "character_name")
    /\ session["character_name"] = "Brom"

\* the keys under which the steps before the summary store a choice
ChoiceKeys ==
    {"stats", "race", "adjusted_stats", "class", "primary_ability",
     "fighting_style", "skills", "skill_proficiencies", "expertise",
     "cantrips", "level1_spells", "equipment", "coins_left",
     "character_name"}

\* C22: finalize is idempotent (running it twice in a row yields the same
\* state as running it once) and changes only derived fields (skill list,
\* passive perception, spell save DC, spell attack bonus), never a choice
\* made in an earlier step.
FinalizeChangesOnlyDerivedFields ==
    [][step6_summary =>
          \A k \in ChoiceKeys : SameKey(session, session', k)]_vars

\* the skills chosen for the current class, for a class that chooses them on
\* the skills step: the class choice clears them, the skills step stores them
ChosenSkills(s) == Range(Get(s, "skill_proficiencies", <<>>))

\* the expertise chosen for the current class: only a Rogue who has chosen
\* skills has any
ChosenExpertise(s) ==
    IF s["class"] = "Rogue" /\ Has(s, "skill_proficiencies")
    THEN Range(Get(s, "expertise", <<>>)) ELSE {}

\* C23: finalize computes, for each of the 18 skills, modifier = the ability
\* modifier of the skill's governing ability (from the adjusted scores) +
\* (2 x proficiency bonus if the skill has expertise, else proficiency bonus
\* if proficient, else 0), with proficiency bonus 2 and proficiency and
\* expertise taken from the skills chosen for the current class.  Stated
\* here for the classes that choose their skills on the skills step.
FinalizeSkillModifiers ==
    [][(/\ Has(session, "adjusted_stats")
        /\ Has(session, "class") /\ session["class"] # "Fighter"
        /\ step6_summary) =>
          /\ Len(session'["skills_list"]) = 18
          /\ \A skill \in DOMAIN SKILL_ABILITIES :
                \E i \in 1..18 :
                   /\ session'["skills_list"][i].name = skill
                   /\ session'["skills_list"][i].mod =
                        (session["adjusted_stats"][SKILL_ABILITIES[skill]]
                           - 10) \div 2
                        + (IF skill \in ChosenExpertise(session) THEN 2 * 2
                           ELSE IF skill \in ChosenSkills(session) THEN 2
                           ELSE 0)]_vars

\* C24: finalize sets spell save DC = 8 + proficiency bonus + casting
\* modifier and spell attack bonus = proficiency bonus + casting modifier,
\* the casting modifier being the intelligence modifier for a Wizard and the
\* wisdom modifier for a Cleric, from the adjusted scores; Fighter and Rogue
\* get no spell stats (both stored as 0).
FinalizeSpellStats ==
    [][(/\ Has(session, "adjusted_stats") /\ Has(session, "class")
        /\ step6_summary) =>
          LET c == session["class"]
              casting == IF c = "Wizard" THEN "intelligence" ELSE "wisdom"
              modifier == (session["adjusted_stats"][casting] - 10) \div 2
          IN  /\ response'.result = "render"
              /\ c \in {"Wizard", "Cleric"} =>
                    /\ session'["spell_save_dc"] = 8 + 2 + modifier
                    /\ session'["spell_attack_bonus"] = 2 + modifier
              /\ c \in {"Fighter", "Rogue"} =>
                    /\ session'["spell_save_dc"] = 0
                    /\ session'["spell_attack_bonus"] = 0]_vars

\* a Wizard of intelligence 9 (modifier -1) finalized: DC 9, attack +1
WizardSpellStatsWithNegativeModifier ==
    /\ response.op = "step6_summary"
    /\ response.result = "render"
    /\ Has(session, "class") /\ session["class"] = "Wizard"
    /\ Has(session, "adjusted_stats")
    /\ session["adjusted_stats"]["intelligence"] = 9
    /\ session["spell_save_dc"] = 9
    /\ session["spell_attack_bonus"] = 1

\* weapon['name'].lower() for the weapons of the model
LoweredName(name) ==
    CASE name = "Club" -> "club"
      [] name = "Dagger" -> "dagger"
      [] name = "Quarterstaff" -> "quarterstaff"
      [] name = "Light Crossbow" -> "light crossbow"
      [] name = "Dart" -> "dart"
      [] name = "Longsword" -> "longsword"
      [] name = "Rapier" -> "rapier"
      [] name = "Longbow" -> "longbow"
      [] OTHER -> name

\* the class's weapon allow-list covers the weapon by category or by name
WeaponCovered(char_class, weapon) ==
    \/ weapon.category \in CLASS_PROFICIENCIES[char_class].weapons
    \/ LoweredName(weapon.name) \in CLASS_PROFICIENCIES[char_class].weapons

\* the item is among the flagged items of the equipment
Flagged(equipment, type, name) ==
    \E i \in 1..Len(equipment.unusable_items) :
       /\ equipment.unusable_items[i].type = type
       /\ equipment.unusable_items[i].item = name

\* C25: a selected armor, shield or weapon is flagged as not proficient
\* exactly when the class's allow-list does not cover it; a weapon is covered
\* if its category or its specific name is in the class's weapon list, for
\* simple as well as martial weapons.
FlaggedExactlyWhenNotCovered ==
    [][(/\ response'.op = "step5_equipment"
        /\ response'.target = "character_name"
        /\ session["class"] \in DOMAIN CLASS_PROFICIENCIES) =>
          LET c == session["class"]
              e == session'["equipment"]
          IN  /\ \A a \in e.armor :
                    Flagged(e, "armor", a.name) <=>
                        a.type \notin CLASS_PROFICIENCIES[c].armor
              /\ \A x \in e.shield :
                    Flagged(e, "shield", x.name) <=>
                        "shields" \notin CLASS_PROFICIENCIES[c].armor
              /\ \A i \in 1..Len(e.weapons) :
                    Flagged(e, "weapon", e.weapons[i].name) <=>
                        ~WeaponCovered(c, e.weapons[i])]_vars

\* the starting budget of the class, in hundredths of a gp
StartingBudget(char_class) ==
    CASE char_class = "Cleric" -> 110 * GP
      [] char_class = "Fighter" -> 155 * GP
      [] char_class = "Rogue" -> 100 * GP
      [] char_class = "Wizard" -> 55 * GP

\* C26: for every selection the total cost is the sum of the costs of all
\* selected items, and remaining funds = the class's starting budget
\* (Cleric 110, Fighter 155, Rogue 100, Wizard 55 gp) minus that total cost.
RemainingIsBudgetLessTotal ==
    [][\A f \in CostForms : \A a \in {"purchase", "preview"} :
          (/\ Has(session, "class")
           /\ validate(f, session["class"],
                       StartingBudget(session["class"]), a).valid
           /\ step5_equipment("POST", FALSE, a, f)) =>
             convert_to_gp(session'["coins_left"]) =
                 StartingBudget(session["class"]) - calculate_total_cost(f)]_vars

\* the cost of the item of an optional slot (a set of at most one record)
SlotCost(slot) ==
    IF slot = {} THEN 0 ELSE convert_to_gp((CHOOSE x \in slot : TRUE).cost)

\* the sum of the costs of the items an equipment record holds
StoredItemsCost(equipment) ==
      SlotCost(equipment.armor) + SlotCost(equipment.shield)
    + SumCosts(equipment.weapons) + SumCosts(equipment.adventuring_gear)
    + SumSeq([i \in 1..5 |->
         LET key == <<"arcane_focus", "holy_symbol", "musical_instrument",
                      "tools", "ammunition">>[i]
         IN  IF key \in DOMAIN equipment.special_equipment
             THEN convert_to_gp(equipment.special_equipment[key].cost)
             ELSE 0])

\* C27: in every reachable state where purchased equipment is stored, the
\* stored remaining funds equal the class's starting budget minus the total
\* cost of the stored equipment, also after the equipment step is viewed
\* again, previewed or submitted with a failing purchase.
RemainingFundsMatchStoredEquipment ==
    Has(session, "equipment") =>
       /\ Has(session, "coins_left")
       /\ convert_to_gp(session["coins_left"]) =
             StartingBudget(session["class"])
                - StoredItemsCost(session["equipment"])

\* C29: every item whose cost is in the total charged at purchase appears in
\* the committed equipment record (in particular a paid spell scroll): the
\* charged total equals the sum of the costs of the stored items.
ChargedItemsAreStored ==
    [][\A f \in CostForms :
          (/\ step5_equipment("POST", FALSE, "purchase", f)
           /\ response'.target = "character_name") =>
             /\ session'["equipment"].total_cost_gp = calculate_total_cost(f)
             /\ calculate_total_cost(f) =
                    StoredItemsCost(session'["equipment"])]_vars

\* C28: in every reachable state where a class is chosen, max HP equals the
\* class's hit die plus the constitution modifier of the current adjusted
\* scores, also when the race is chosen or changed after the class.
MaxHpFollowsAdjustedScores ==
    (Has(session, "class") /\ Has(session, "adjusted_stats")) =>
        session["max_hp"] =
            [Cleric |-> 8, Fighter |-> 10, Rogue |-> 8,
             Wizard |-> 6][session["class"]]
            + ((session["adjusted_stats"]["constitution"] - 10) \div 2)

\* C30: choosing a race is idempotent and not cumulative: the adjusted scores
\* and the constitution modifier are computed from the raw scores and the
\* race chosen last only, whatever race was chosen before, and choosing the
\* same race twice changes nothing.
RaceChoiceNotCumulative ==
    [][\A race \in RaceInputs : \A saved \in BOOLEAN :
          (Has(session, "stats") /\ step2_race(race, saved)) =>
            /\ session'["adjusted_stats"] =
                  [k \in DOMAIN session["stats"] |->
                      session["stats"][k] + ConfiguredBonus(race, k)]
            /\ session'["constitution_modifier"] =
                  (session["stats"]["constitution"]
                     + ConfiguredBonus(race, "constitution") - 10) \div 2
            /\ (/\ Has(session, "race") /\ session["race"] = race
                /\ Has(session, "adjusted_stats")) => session' = session]_vars

\* a Dwarf whose scores carry the Dwarf's bonuses and none of an Elf's
DwarfBonusesOnly ==
    /\ response.op = "step2_race"
    /\ response.result = "redirect"
    /\ Has(session, "race") /\ session["race"] = "Dwarf"
    /\ session["adjusted_stats"]["constitution"] =
          session["stats"]["constitution"] + 2
    /\ session["adjusted_stats"]["strength"] = session["stats"]["strength"] + 1
    /\ session["adjusted_stats"]["dexterity"] = session["stats"]["dexterity"]
    /\ session["adjusted_stats"]["charisma"] = session["stats"]["charisma"]
    /\ session["constitution_modifier"] =
          (session["stats"]["constitution"] + 2 - 10) \div 2

====
